---- MODULE Spec2Model ----
(***************************************************************************)
(* nutanix-exporter: the per-cluster credential staleness machine          *)
(* (Exporter.fetchData, Cluster.RefreshCredentialsIfNeeded), the scrape    *)
(* handler (createClusterMetricsHandler) and the route table               *)
(* (Init, startClusterRefresh, updateHTTPHandlers).                        *)
(***************************************************************************)
EXTENDS Naturals, Integers, FiniteSets, Sequences, TLC

(* ------------------------------ bounds --------------------------------- *)
\* concurrent in-flight scrape requests (net/http serves each in a goroutine)
NumScrapes == 2
\* collectors gathered concurrently per cluster registry
NumCollectors == 1
\* collectors whose fetch contexts are followed per scrape request
NumGathered == 2
\* distinct credential pairs the credential provider can hand out
NumPairs == 2

Scrapes == 1..NumScrapes
Collectors == 1..NumCollectors
Pairs == 1..NumPairs
\* element clusters Prism Central can report
Names == {"DS-East", "Prod-01"}

None == "none"

(* --------------------------- pure helpers ------------------------------ *)
\* fmt.Sprintf("/metrics/%s", name)
Route(name) == "/metrics/" \o name

\* the cluster name a registered pattern's handler closure is bound to
HandlerCluster(route) == CHOOSE n \in Names : Route(n) = route

\* HTTP statuses the cluster API answers with
Statuses == {200, 401, 403, 404, 500}

\* resp.StatusCode == 403 || resp.StatusCode == 401
IsAuthFailure(status) == status = 403 \/ status = 401

\* resp.StatusCode < 200 || resp.StatusCode >= 300
IsNon2xx(status) == status < 200 \/ status >= 300

\* what VaultClient.GetCreds can do: log.Fatalf, or return a
\* (username, secret) pair; 0 stands for the empty string
Fatal == <<"fatal", 0, 0>>
Creds(username, secret) == <<"creds", username, secret>>
NoCreds == Creds(0, 0)
VaultOutcomes ==
    {Fatal} \cup {NoCreds, Creds(1, 0), Creds(0, 1)}
            \cup {Creds(p, p) : p \in Pairs}

\* username == "" || password == ""
EmptyCreds(creds) == creds[2] = 0 \/ creds[3] = 0

(* ------------------------------- state --------------------------------- *)
VARIABLES
    exit,             \* "running", or why the process ended
    phase,            \* "init" before Init() registered the routes, then "serving"
    registeredRoutes, \* the routes marked true in the registeredRoutes map
    muxPatterns,      \* the patterns registered on http.DefaultServeMux
    RefreshNeeded,    \* Cluster.RefreshNeeded of the object bound to a name
    Mutex,            \* Cluster.Mutex: the scrape whose handler holds it, or 0
    Username,         \* client Username of the cluster's API client
    Password,         \* client Password of the cluster's API client
    target,           \* the cluster a scrape request is served for
    hpc,              \* position of the scrape handler
    pending,          \* the pair RefreshCredentials got from the provider
    hookDid,          \* what the refresh hook of this scrape did
    raced,            \* the flag was written since this scrape's hook unlocked
    behind,           \* refreshes that were in progress when the scrape arrived
    cpc,              \* position of each collector's fetchData
    cstatus,          \* the HTTP status the collector's fetch received (0: none)
    cres,             \* what fetchData returned
    marks,            \* "Marking stale" logs since the flag was last cleared
    lastSkipped,      \* the last updateHTTPHandlers met a route already registered
    mainPc,           \* position of Init() in the main goroutine
    tickPc,           \* position of the goroutine of startClusterRefresh
    cycle,            \* SetupClusters runs so far
    lastCycle,        \* how the last cycle of the ticker goroutine ended
    clusterObjs,      \* per goroutine: the clusterMap SetupClusters returned to it
    clusterCreds,     \* per goroutine: the pairs NewCluster got for that clusterMap
    latest,           \* the Cluster objects of the last clusterMap built
    handlers,         \* the Cluster object the handler of a name's route closes over
    firstBound,       \* the Cluster object a name's route was first registered with
    served,           \* the Cluster object that served the last scrape of a route
    dpc,              \* position of a FetchClusters call
    version,          \* FetchClusters' version argument
    ClusterPrefix,    \* the CLUSTER_PREFIX setting
    sent,             \* the (name, ip) clusters Prism Central answers about
    listOk,           \* the decoded document holds an array under data / entities
    records,          \* the elements of that array, as decoded
    parsed,           \* what parseClusters returned
    clusterData,      \* FetchClusters' result map
    derr,             \* how FetchClusters failed, if it did
    registry,         \* the collectors registered on the cluster's Registry
    gathers,          \* scrapes of the route so far
    gpc,              \* position of each collector's Collect in the scrape
    gres,             \* what the collector's fetchData returned in the scrape
    requests,         \* requests the collector sent in the scrape
    emitted,          \* the samples the collector sent to the channel
    gdoc,             \* the document the collector's fetch decoded in the scrape
    gaugeVals,        \* per collector: the series of its GaugeVecs and their values
    epc,              \* which helper of the base Exporter was last called
    evalue,           \* the argument of valueToFloat64
    efloat,           \* what valueToFloat64 returned
    edoc,             \* the nestedMap argument of flattenMap
    eflat,            \* what flattenMap returned
    eagain,           \* what flattenMap returned for that result
    rctx,             \* the context of a scrape request, r.Context()
    fetchCtx,         \* the context Collect made for its fetch in that scrape
    qpc,              \* position of a scrape's goroutine, one statement at a time
    qcl,              \* the cluster whose handler serves that scrape
    qgot,             \* the pair RefreshCredentials got from the provider
    qkey,             \* the identifier RefreshCredentials asked the provider with
    quser,            \* the Username CreateRequest read for the scrape's request
    qpass,            \* the Password CreateRequest read for the scrape's request
    rejected,         \* per cluster: the pairs its API answered with 401 or 403
    builtKey          \* the identifier NewCluster asked the provider with

vars == <<exit, phase, registeredRoutes, muxPatterns, RefreshNeeded, Mutex,
          Username, Password, target, hpc, pending, hookDid, raced, behind,
          cpc, cstatus, cres, marks, lastSkipped, mainPc, tickPc, cycle,
          lastCycle, clusterObjs, clusterCreds, latest, handlers, firstBound,
          served, dpc, version, ClusterPrefix, sent, listOk, records, parsed,
          clusterData, derr, registry, gathers, gpc, gres, requests, emitted,
          gdoc, gaugeVals, epc, evalue, efloat, edoc, eflat, eagain,
          rctx, fetchCtx, qpc, qcl, qgot, qkey, quser, qpass, rejected,
          builtKey>>

routeVars == <<phase, registeredRoutes, muxPatterns, lastSkipped>>
clusterVars == <<RefreshNeeded, Mutex, Username, Password, marks>>
scrapeVars == <<target, hpc, pending, hookDid, raced, behind>>
collectorVars == <<cpc, cstatus, cres>>
tableVars == <<mainPc, tickPc, cycle, lastCycle, clusterObjs, clusterCreds,
               latest, handlers, firstBound, served>>
\* the variables the scrape path and its route table never touch
discoveryVars == <<dpc, version, ClusterPrefix, sent, listOk, records, parsed,
                   clusterData, derr>>
gaugeVars == <<registry, gathers, gpc, gres, requests, emitted, gdoc,
               gaugeVals>>
\* a collector that decoded no document
NoDoc == [list |-> FALSE, entities |-> <<>>, top |-> {}]
engineVars == <<epc, evalue, efloat, edoc, eflat, eagain>>
cancelVars == <<rctx, fetchCtx>>
clientVars == <<qpc, qcl, qgot, qkey, quser, qpass, rejected, builtKey>>
\* the variables neither discovery nor the collectors touch
sideVars == <<engineVars, cancelVars, clientVars>>
\* the variables of the data path: discovery parsing and the collectors
dataVars == <<discoveryVars, gaugeVars, sideVars>>

\* the collector types: StorageContainerExporter, ClusterExporter,
\* HostsExporter, VmExporter
Kinds == {"storage", "cluster", "host", "vm"}
otherVars == <<tableVars, dataVars>>

\* the goroutines that run SetupClusters and updateHTTPHandlers
Contexts == {"main", "tick"}
\* a Cluster object: its URL (the element cluster's ip) and the SetupClusters
\* run that created it; <<0, 0>> where there is none
NoObject == <<0, 0>>

\* positions of RefreshCredentialsIfNeeded at which RefreshCredentials runs
RefreshPcs == {"refresh", "setPass"}

Init ==
    /\ exit = "running"
    /\ phase = "init"
    /\ registeredRoutes = {}
    /\ muxPatterns = {}
    /\ RefreshNeeded = [n \in Names |-> FALSE]
    /\ Mutex = [n \in Names |-> 0]
    /\ Username = [n \in Names |-> 0]
    /\ Password = [n \in Names |-> 0]
    /\ target = [s \in Scrapes |-> None]
    /\ hpc = [s \in Scrapes |-> "idle"]
    /\ pending = [s \in Scrapes |-> NoCreds]
    /\ hookDid = [s \in Scrapes |-> None]
    /\ raced = [s \in Scrapes |-> FALSE]
    /\ behind = [s \in Scrapes |-> {}]
    /\ cpc = [s \in Scrapes |-> [k \in Collectors |-> "idle"]]
    /\ cstatus = [s \in Scrapes |-> [k \in Collectors |-> 0]]
    /\ cres = [s \in Scrapes |-> [k \in Collectors |-> None]]
    /\ marks = [n \in Names |-> 0]
    /\ lastSkipped = FALSE
    /\ mainPc = "setup"
    /\ tickPc = "wait"
    /\ cycle = 0
    /\ lastCycle = None
    /\ clusterObjs = [c \in Contexts |-> [n \in Names |-> NoObject]]
    /\ clusterCreds = [c \in Contexts |-> [n \in Names |-> NoCreds]]
    /\ latest = [n \in Names |-> NoObject]
    /\ handlers = [n \in Names |-> NoObject]
    /\ firstBound = [n \in Names |-> NoObject]
    /\ served = [n \in Names |-> NoObject]
    /\ dpc = "idle"
    /\ version = "v4"
    /\ ClusterPrefix = ""
    /\ sent = <<>>
    /\ listOk = FALSE
    /\ records = <<>>
    /\ parsed = <<>>
    /\ clusterData = <<>>
    /\ derr = None
    /\ registry = {}
    /\ gathers = 0
    /\ gpc = [c \in Kinds |-> "idle"]
    /\ gres = [c \in Kinds |-> None]
    /\ requests = [c \in Kinds |-> 0]
    /\ emitted = [c \in Kinds |-> {}]
    /\ gdoc = [c \in Kinds |-> NoDoc]
    /\ gaugeVals = [c \in Kinds |-> {}]
    /\ epc = "idle"
    /\ evalue = <<"null", "">>
    /\ efloat = "0"
    /\ edoc = {}
    /\ eflat = {}
    /\ eagain = {}
    /\ rctx = [s \in Scrapes |-> None]
    /\ fetchCtx = [s \in Scrapes |-> [k \in 1..NumGathered |-> None]]
    /\ qpc = [s \in Scrapes |-> "idle"]
    /\ qcl = [s \in Scrapes |-> None]
    /\ qgot = [s \in Scrapes |-> NoCreds]
    /\ qkey = [s \in Scrapes |-> None]
    /\ quser = [s \in Scrapes |-> 0]
    /\ qpass = [s \in Scrapes |-> 0]
    /\ rejected = [n \in Names |-> {}]
    /\ builtKey = [n \in Names |-> None]

(* ------------------- discovery and the route table --------------------- *)
\* What one SetupClusters run can meet when no call is fatal: FetchClusters
\* reports some clusters and NewCluster asks the provider for each of them.
\* found[n] is Absent when n is not reported, else what the provider returned.
Absent == <<"absent", 0, 0>>
Discoveries == [Names -> {Absent, NoCreds} \cup {Creds(p, p) : p \in Pairs}]

\* SetupClusters: the clusters whose NewCluster returned an object
ClusterMap(found) == {n \in Names : found[n] # Absent
                                    /\ ~EmptyCreds(found[n])}

\* updateHTTPHandlers without the registeredRoutes test
RoutesToRegisterUnchecked(clusterMap, registered) == clusterMap

\* updateHTTPHandlers: the names whose route passes !registeredRoutes[route]
RoutesToRegister(clusterMap, registered) ==
    {n \in clusterMap : Route(n) \notin registered}

\* updateHTTPHandlers that rebuilds the route table from the clusterMap it
\* was called with, forgetting the routes of clusters no longer reported
UpdateHTTPHandlersPrunes(found) ==
    LET new == RoutesToRegister(ClusterMap(found), registeredRoutes) IN
    /\ lastSkipped' = (\E n \in ClusterMap(found) : Route(n) \in registeredRoutes)
    /\ exit' = exit
    /\ muxPatterns' = {Route(n) : n \in ClusterMap(found)}
    /\ registeredRoutes' = {Route(n) : n \in ClusterMap(found)}
    /\ Username' = [n \in Names |->
           IF n \in new THEN found[n][2] ELSE Username[n]]
    /\ Password' = [n \in Names |->
           IF n \in new THEN found[n][3] ELSE Password[n]]
    /\ UNCHANGED <<RefreshNeeded, Mutex, marks>>

\* updateHTTPHandlers(clusterMap): http.HandleFunc panics on a pattern that
\* is already registered; a new route's handler closes over the new Cluster
UpdateHTTPHandlers(found) ==
    LET new == RoutesToRegister(ClusterMap(found), registeredRoutes) IN
    /\ lastSkipped' = (\E n \in ClusterMap(found) : Route(n) \in registeredRoutes)
    /\ IF \E n \in new : Route(n) \in muxPatterns
       THEN /\ exit' = "muxPanic"
            /\ UNCHANGED <<registeredRoutes, muxPatterns, clusterVars>>
       ELSE /\ exit' = exit
            /\ muxPatterns' = muxPatterns \cup {Route(n) : n \in new}
            /\ registeredRoutes' = registeredRoutes \cup {Route(n) : n \in new}
            /\ Username' = [n \in Names |->
                   IF n \in new THEN found[n][2] ELSE Username[n]]
            /\ Password' = [n \in Names |->
                   IF n \in new THEN found[n][3] ELSE Password[n]]
            /\ UNCHANGED <<RefreshNeeded, Mutex, marks>>

\* Init(): NewCluster for Prism Central, SetupClusters, updateHTTPHandlers;
\* every failure on the way is a log.Fatalf
Startup ==
    /\ exit = "running" /\ phase = "init"
    /\ \/ /\ exit' = "setupFatal"
          /\ UNCHANGED <<routeVars, clusterVars>>
       \/ \E found \in Discoveries :
            /\ phase' = "serving"
            /\ UpdateHTTPHandlers(found)
    /\ UNCHANGED <<scrapeVars, collectorVars>>
    /\ UNCHANGED otherVars

\* one tick of startClusterRefresh's goroutine
DiscoveryTick ==
    /\ exit = "running" /\ phase = "serving"
    /\ \/ \* SetupClusters returned an error: logged, cycle skipped
          /\ lastSkipped' = FALSE
          /\ UNCHANGED <<exit, phase, registeredRoutes, muxPatterns,
                         clusterVars>>
       \/ \* NewCluster -> GetPECreds -> GetCreds: log.Fatalf
          /\ exit' = "setupFatal"
          /\ UNCHANGED <<routeVars, clusterVars>>
       \/ \E found \in Discoveries :
            /\ UpdateHTTPHandlers(found)
            /\ UNCHANGED phase
    /\ UNCHANGED <<scrapeVars, collectorVars>>
    /\ UNCHANGED otherVars

(* --------------------------- scrape handler ---------------------------- *)
\* the cluster object scrape s is served from
Cl(s) == target[s]

\* a write of n's flag is concurrent with the unsynchronised read of every
\* collector on n that has not read the flag yet (writer: the scrape whose
\* own handler writes, 0 for a collector's write)
RacedAfterWrite(n, writer) ==
    [r \in Scrapes |->
        IF /\ r # writer /\ target[r] = n /\ hpc[r] = "collect"
           /\ \E k \in Collectors : cpc[r][k] = "start"
        THEN TRUE ELSE raced[r]]

\* one mutex shared by all clusters
MutexFreeGlobal(n) == \A m \in Names : Mutex[m] = 0

\* a Lock() that does not wait for the holder
MutexFreeAlways(n) == TRUE

\* sync.Mutex: Lock() returns only when nobody holds the mutex
MutexFree(n) == Mutex[n] = 0

\* a request for a registered pattern reaches its handler closure
ScrapeArrive(s) ==
    /\ exit = "running" /\ phase = "serving"
    /\ hpc[s] = "idle"
    /\ \E route \in muxPatterns :
         /\ target' = [target EXCEPT ![s] = HandlerCluster(route)]
         /\ behind' = [behind EXCEPT ![s] =
                {r \in Scrapes : target[r] = HandlerCluster(route)
                                 /\ hpc[r] \in RefreshPcs}]
    /\ hpc' = [hpc EXCEPT ![s] = "hook"]
    /\ UNCHANGED <<exit, routeVars, clusterVars, pending, hookDid, raced,
                   collectorVars>>
    /\ UNCHANGED otherVars

\* the handler goes on to promhttp's ServeHTTP: Gather starts the collectors
StartCollectors(s) ==
    /\ hpc' = [hpc EXCEPT ![s] = "collect"]
    /\ behind' = [r \in Scrapes |-> behind[r] \ {s}]
    /\ cpc' = [cpc EXCEPT ![s] = [k \in Collectors |-> "start"]]

\* RefreshCredentialsIfNeeded: c.Mutex.Lock(); if c.RefreshNeeded; when the
\* flag is not set the deferred Unlock() follows at once
HookLock(s) ==
    /\ exit = "running"
    /\ hpc[s] = "hook"
    /\ MutexFree(Cl(s))
    /\ IF RefreshNeeded[Cl(s)]
       THEN /\ Mutex' = [Mutex EXCEPT ![Cl(s)] = s]
            /\ hpc' = [hpc EXCEPT ![s] = "refresh"]
            /\ UNCHANGED <<hookDid, raced, behind, cpc>>
       ELSE /\ hookDid' = [hookDid EXCEPT ![s] = "noop"]
            /\ raced' = [raced EXCEPT ![s] = FALSE]
            /\ StartCollectors(s)
            /\ UNCHANGED Mutex
    /\ UNCHANGED <<exit, routeVars, RefreshNeeded, Username, Password, marks,
                   target, pending, cstatus, cres>>
    /\ UNCHANGED otherVars

\* RefreshCredentials: vaultClient.GetPECreds, the empty-pair test, and
\* c.Username = username
HookRefresh(s) ==
    /\ exit = "running"
    /\ hpc[s] = "refresh"
    /\ \E out \in VaultOutcomes :
         IF out = Fatal
         THEN \* GetCreds: log.Fatalf ends the process
              /\ exit' = "hookFatal"
              /\ UNCHANGED <<Mutex, Username, hpc, pending, hookDid, raced,
                             behind, cpc>>
         ELSE IF EmptyCreds(out)
         THEN \* RefreshCredentials returns an error: logged, return, Unlock()
              /\ Mutex' = [Mutex EXCEPT ![Cl(s)] = 0]
              /\ hookDid' = [hookDid EXCEPT ![s] = "failed"]
              /\ raced' = [raced EXCEPT ![s] = FALSE]
              /\ StartCollectors(s)
              /\ UNCHANGED <<exit, Username, pending>>
         ELSE /\ Username' = [Username EXCEPT ![Cl(s)] = out[2]]
              /\ pending' = [pending EXCEPT ![s] = out]
              /\ hpc' = [hpc EXCEPT ![s] = "setPass"]
              /\ UNCHANGED <<exit, Mutex, hookDid, raced, behind, cpc>>
    /\ UNCHANGED <<routeVars, RefreshNeeded, Password, marks, target,
                   cstatus, cres>>
    /\ UNCHANGED otherVars

\* the refresh succeeded and leaves the flag set
HookFinishKeepsFlag(s) ==
    /\ exit = "running"
    /\ hpc[s] = "setPass"
    /\ Password' = [Password EXCEPT ![Cl(s)] = pending[s][3]]
    /\ Mutex' = [Mutex EXCEPT ![Cl(s)] = 0]
    /\ hookDid' = [hookDid EXCEPT ![s] = "refreshed"]
    /\ raced' = [raced EXCEPT ![s] = FALSE]
    /\ StartCollectors(s)
    /\ UNCHANGED <<exit, routeVars, RefreshNeeded, marks, Username, target,
                   pending, cstatus, cres>>
    /\ UNCHANGED otherVars

\* c.Password = password; return nil; c.RefreshNeeded = false; the deferred
\* c.Mutex.Unlock()
HookFinish(s) ==
    /\ exit = "running"
    /\ hpc[s] = "setPass"
    /\ Password' = [Password EXCEPT ![Cl(s)] = pending[s][3]]
    /\ RefreshNeeded' = [RefreshNeeded EXCEPT ![Cl(s)] = FALSE]
    /\ marks' = [marks EXCEPT ![Cl(s)] = 0]
    /\ Mutex' = [Mutex EXCEPT ![Cl(s)] = 0]
    /\ hookDid' = [hookDid EXCEPT ![s] = "refreshed"]
    /\ raced' = [RacedAfterWrite(Cl(s), s) EXCEPT ![s] = FALSE]
    /\ StartCollectors(s)
    /\ UNCHANGED <<exit, routeVars, Username, target, pending, cstatus, cres>>
    /\ UNCHANGED otherVars

\* every collector of the scrape returned: the response is written
ScrapeEnd(s) ==
    /\ exit = "running"
    /\ hpc[s] = "collect"
    /\ \A k \in Collectors : cpc[s][k] = "done"
    /\ hpc' = [hpc EXCEPT ![s] = "idle"]
    /\ target' = [target EXCEPT ![s] = None]
    /\ pending' = [pending EXCEPT ![s] = NoCreds]
    /\ hookDid' = [hookDid EXCEPT ![s] = None]
    /\ raced' = [raced EXCEPT ![s] = FALSE]
    /\ cpc' = [cpc EXCEPT ![s] = [k \in Collectors |-> "idle"]]
    /\ cstatus' = [cstatus EXCEPT ![s] = [k \in Collectors |-> 0]]
    /\ cres' = [cres EXCEPT ![s] = [k \in Collectors |-> None]]
    /\ UNCHANGED <<exit, routeVars, clusterVars, behind>>
    /\ UNCHANGED otherVars

(* ------------------------------ fetchData ------------------------------ *)
\* The values the unsynchronised read `if e.Cluster.RefreshNeeded` can see.
\* The read holds no lock: a write made since the scrape's handler released
\* the mutex is concurrent with it, and the read may see the value from
\* before that write as well as the one after (the flag only ever toggles).
FlagRead(s) == IF raced[s] THEN BOOLEAN ELSE {RefreshNeeded[Cl(s)]}

\* what MakeRequest can come back with: a transport error (status 0), or a
\* response with a status and a body that decodes or not
Responses == {<<0, FALSE>>} \cup (Statuses \X BOOLEAN)

\* fetchData after the request was sent, for a response that needs no lock
ResponseResult(status, decodes) ==
    IF status = 0 THEN "transportErr"
    ELSE IF IsNon2xx(status) THEN "requestFailed"
    ELSE IF decodes THEN "ok" ELSE "decodeErr"

\* fetchData up to the status test: the stale fast-fail, else MakeRequest
\* and what it returns
FetchStart(s, k) ==
    /\ exit = "running"
    /\ cpc[s][k] = "start"
    /\ \E stale \in FlagRead(s) :
         IF stale
         THEN /\ cpc' = [cpc EXCEPT ![s][k] = "done"]
              /\ cres' = [cres EXCEPT ![s][k] = "knownStale"]
              /\ UNCHANGED cstatus
         ELSE \E resp \in Responses :
              /\ cstatus' = [cstatus EXCEPT ![s][k] = resp[1]]
              /\ IF resp[1] # 0 /\ IsAuthFailure(resp[1])
                 THEN /\ cpc' = [cpc EXCEPT ![s][k] = "auth"]
                      /\ UNCHANGED cres
                 ELSE /\ cpc' = [cpc EXCEPT ![s][k] = "done"]
                      /\ cres' = [cres EXCEPT ![s][k] =
                                     ResponseResult(resp[1], resp[2])]
    \* once every collector of the scrape has read the flag no read is left
    \* for a write to race with
    /\ raced' = [raced EXCEPT ![s] =
                    @ /\ \E j \in Collectors \ {k} : cpc[s][j] = "start"]
    /\ UNCHANGED <<exit, routeVars, clusterVars, target, hpc, pending,
                   hookDid, behind>>
    /\ UNCHANGED otherVars

\* the counter of "Marking stale" logs is capped where it stops mattering
MaxMarks == 3
Bump(n) == IF n < MaxMarks THEN n + 1 ELSE n

\* the 401 branch sets the flag and logs without looking at the flag
FetchMarkStaleUntested(s, k) ==
    /\ exit = "running"
    /\ cpc[s][k] = "auth"
    /\ MutexFree(Cl(s))
    /\ RefreshNeeded' = [RefreshNeeded EXCEPT ![Cl(s)] = TRUE]
    /\ marks' = [marks EXCEPT ![Cl(s)] = Bump(@)]
    /\ raced' = RacedAfterWrite(Cl(s), 0)
    /\ cpc' = [cpc EXCEPT ![s][k] = "marked"]
    /\ UNCHANGED <<exit, routeVars, Mutex, Username, Password, target, hpc,
                   pending, hookDid, behind, cstatus, cres>>
    /\ UNCHANGED otherVars

\* the 401 branch leaves the flag as it found it
FetchMarkStaleForgets(s, k) ==
    /\ exit = "running"
    /\ cpc[s][k] = "auth"
    /\ MutexFree(Cl(s))
    /\ cpc' = [cpc EXCEPT ![s][k] = "seen"]
    /\ UNCHANGED <<exit, routeVars, clusterVars, scrapeVars, cstatus, cres>>
    /\ UNCHANGED otherVars

\* Mutex.Lock(); if !RefreshNeeded { log "Marking stale credentials";
\* RefreshNeeded = true }; Mutex.Unlock()
FetchMarkStale(s, k) ==
    /\ exit = "running"
    /\ cpc[s][k] = "auth"
    /\ MutexFree(Cl(s))
    /\ IF ~RefreshNeeded[Cl(s)]
       THEN /\ RefreshNeeded' = [RefreshNeeded EXCEPT ![Cl(s)] = TRUE]
            /\ marks' = [marks EXCEPT ![Cl(s)] = Bump(@)]
            /\ raced' = RacedAfterWrite(Cl(s), 0)
            /\ cpc' = [cpc EXCEPT ![s][k] = "marked"]
       ELSE /\ cpc' = [cpc EXCEPT ![s][k] = "seen"]
            /\ UNCHANGED <<RefreshNeeded, marks, raced>>
    /\ UNCHANGED <<exit, routeVars, Mutex, Username, Password, target, hpc,
                   pending, hookDid, behind, cstatus, cres>>
    /\ UNCHANGED otherVars

\* return nil, fmt.Errorf("authentication failed for cluster %s", ...); the
\* deferred resp.Body.Close() drops the response
FetchReturn(s, k) ==
    /\ exit = "running"
    /\ cpc[s][k] \in {"marked", "seen"}
    /\ cpc' = [cpc EXCEPT ![s][k] = "done"]
    /\ cres' = [cres EXCEPT ![s][k] = "authErr"]
    /\ cstatus' = [cstatus EXCEPT ![s][k] = 0]
    /\ UNCHANGED <<exit, routeVars, clusterVars, scrapeVars>>
    /\ UNCHANGED otherVars

(* --------------------------- specification ----------------------------- *)
Next ==
    \/ Startup
    \/ DiscoveryTick
    \/ \E s \in Scrapes :
         \/ ScrapeArrive(s)
         \/ HookLock(s)
         \/ HookRefresh(s)
         \/ HookFinish(s)
         \/ ScrapeEnd(s)
    \/ \E s \in Scrapes, k \in Collectors :
         \/ FetchStart(s, k)
         \/ FetchMarkStale(s, k)
         \/ FetchReturn(s, k)

Spec == Init /\ [][Next]_vars

TypeOK ==
    /\ exit \in {"running", "hookFatal", "setupFatal", "muxPanic", "parsePanic"}
    /\ \A n \in Names : marks[n] \in 0..MaxMarks

(* -------------- the route table, one goroutine step at a time ----------- *)
\* element-cluster addresses Prism Central can report for a name
NumIps == 2
Ips == 1..NumIps
\* the cap on SetupClusters runs
MaxCycles == 3

\* SetupClusters: one nutanix.NewCluster object per reported cluster whose
\* pair is not empty, created by SetupClusters run number `run`
NewClusters(found, ip, run) ==
    [n \in Names |-> IF n \in ClusterMap(found) THEN <<ip[n], run>>
                     ELSE NoObject]

\* SetupClusters returned clusterMap to goroutine ctx
GotClusterMap(ctx, found, ip) ==
    /\ cycle' = cycle + 1
    /\ clusterObjs' = [clusterObjs EXCEPT ![ctx] = NewClusters(found, ip, cycle + 1)]
    /\ clusterCreds' = [clusterCreds EXCEPT ![ctx] = found]
    /\ latest' = NewClusters(found, ip, cycle + 1)

\* updateHTTPHandlers binds every route, registered before or not, to the
\* object of the clusterMap it was called with
BindFreshObjects(ctx, new) ==
    [n \in Names |-> IF clusterObjs[ctx][n] # NoObject THEN clusterObjs[ctx][n]
                     ELSE handlers[n]]

\* updateHTTPHandlers: createClusterMetricsHandler(cluster, ...) closes over
\* the object of the clusterMap, for the routes it registers only
BindHandlers(ctx, new) ==
    [n \in Names |-> IF n \in new THEN clusterObjs[ctx][n] ELSE handlers[n]]

\* updateHTTPHandlers(clusterMap, vaultClient) as called by goroutine ctx
RegisterHandlers(ctx) ==
    LET found == clusterCreds[ctx]
        new == RoutesToRegister(ClusterMap(found), registeredRoutes) IN
    /\ UpdateHTTPHandlers(found)
    /\ handlers' = IF exit' = "muxPanic" THEN handlers
                   ELSE BindHandlers(ctx, new)
    /\ firstBound' = [n \in Names |->
          IF firstBound[n] = NoObject /\ exit' # "muxPanic" /\ n \in new
          THEN clusterObjs[ctx][n] ELSE firstBound[n]]

\* Init() up to the return of SetupClusters: a provider failure (GetCreds), a
\* missing environment variable, a nil Prism Central cluster or an error of
\* SetupClusters is a log.Fatalf; an unchecked type assertion of the parsers
\* panics
MainSetup ==
    /\ exit = "running" /\ mainPc = "setup"
    /\ \/ /\ exit' = "setupFatal"
          /\ UNCHANGED <<mainPc, cycle, clusterObjs, clusterCreds, latest>>
       \/ /\ exit' = "parsePanic"
          /\ UNCHANGED <<mainPc, cycle, clusterObjs, clusterCreds, latest>>
       \/ \E found \in Discoveries, ip \in [Names -> Ips] :
            /\ GotClusterMap("main", found, ip)
            /\ mainPc' = "register"
            /\ UNCHANGED exit
    /\ UNCHANGED <<phase, registeredRoutes, muxPatterns, lastSkipped,
                   clusterVars, scrapeVars, collectorVars, tickPc, lastCycle,
                   handlers, firstBound, served>>
    /\ UNCHANGED dataVars

\* Init(): updateHTTPHandlers(clusterMap, vaultClient), then
\* startClusterRefresh and http.ListenAndServe
MainRegister ==
    /\ exit = "running" /\ mainPc = "register"
    /\ RegisterHandlers("main")
    /\ mainPc' = "serve"
    /\ UNCHANGED <<phase, scrapeVars, collectorVars, tickPc, cycle, lastCycle,
                   clusterObjs, clusterCreds, latest, served>>
    /\ UNCHANGED dataVars

\* the ticker goroutine runs while Init() is still registering
RefreshStartedEarly == mainPc # "setup"

\* the goroutine of startClusterRefresh exists once Init() has passed its
\* own updateHTTPHandlers call
RefreshStarted == mainPc = "serve"

\* case <-ticker.C: SetupClusters; an error is logged and the cycle skipped
TickSetup ==
    /\ exit = "running" /\ RefreshStarted /\ tickPc = "wait"
    /\ cycle < MaxCycles
    /\ \/ /\ lastCycle' = "error"
          /\ cycle' = cycle + 1
          /\ UNCHANGED <<exit, tickPc, clusterObjs, clusterCreds, latest>>
       \/ /\ lastCycle' = "fatal"
          /\ exit' = "setupFatal"
          /\ UNCHANGED <<tickPc, cycle, clusterObjs, clusterCreds, latest>>
       \/ /\ lastCycle' = "panic"
          /\ exit' = "parsePanic"
          /\ UNCHANGED <<tickPc, cycle, clusterObjs, clusterCreds, latest>>
       \/ \E found \in Discoveries, ip \in [Names -> Ips] :
            /\ GotClusterMap("tick", found, ip)
            /\ tickPc' = "update"
            /\ UNCHANGED <<exit, lastCycle>>
    /\ UNCHANGED <<phase, registeredRoutes, muxPatterns, lastSkipped,
                   clusterVars, scrapeVars, collectorVars, mainPc, handlers,
                   firstBound, served>>
    /\ UNCHANGED dataVars

\* the ticker goroutine: updateHTTPHandlers(clusterMap, vaultClient)
TickRegister ==
    /\ exit = "running" /\ RefreshStarted /\ tickPc = "update"
    /\ RegisterHandlers("tick")
    /\ tickPc' = "wait"
    /\ lastCycle' = "ok"
    /\ UNCHANGED <<phase, scrapeVars, collectorVars, mainPc, cycle,
                   clusterObjs, clusterCreds, latest, served>>
    /\ UNCHANGED dataVars

\* a scrape of a registered route, as a whole: the handler's object serves
\* it; its hook may replace a stale pair and a fetch may mark the pair stale
RouteScrape(n) ==
    /\ exit = "running" /\ mainPc = "serve"
    /\ Route(n) \in muxPatterns
    /\ served' = [served EXCEPT ![n] = handlers[HandlerCluster(Route(n))]]
    /\ \E p \in Pairs, stale \in BOOLEAN :
         /\ Username' = [Username EXCEPT ![n] = IF RefreshNeeded[n] THEN p ELSE @]
         /\ Password' = [Password EXCEPT ![n] = IF RefreshNeeded[n] THEN p ELSE @]
         /\ RefreshNeeded' = [RefreshNeeded EXCEPT ![n] = stale]
    /\ UNCHANGED <<exit, routeVars, Mutex, marks, scrapeVars, collectorVars,
                   mainPc, tickPc, cycle, lastCycle, clusterObjs, clusterCreds,
                   latest, handlers, firstBound>>
    /\ UNCHANGED dataVars

RouteNext ==
    \/ MainSetup
    \/ MainRegister
    \/ TickSetup
    \/ TickRegister
    \/ \E n \in Names : RouteScrape(n)

RouteSpec == Init /\ [][RouteNext]_vars

(* ------------------------- FetchClusters ------------------------------- *)
\* clusters per discovery response
MaxClusters == 2
\* names and addresses Prism Central reports; "Unnamed" is what it calls a
\* cluster without a name
ClusterNames == Names \cup {"Unnamed"}
Addrs == {"10.0.0.1", "10.0.0.2"}
Versions == {"v3", "v4"}
Prefixes == {"", "DS", "Prod-01-West"}

\* a decoded JSON value, as far as the parsers look at it: a missing key
\* (nil), an object, a string, or anything else (number, array, null)
JAbsent == <<"absent", "">>
JObject == <<"object", "">>
JOther == <<"other", "">>
JString(text) == <<"string", text>>
\* v.(map[string]interface{}) succeeds
IsObject(v) == v[1] = "object"
\* v.(string) succeeds
IsString(v) == v[1] = "string"

\* the keys the parsers read, outermost first; "" is the array element
V4Path == <<"", "network", "externalAddress", "ipv4", "value">>
V3SpecPath == <<"", "spec", "name">>
V3StatusPath == <<"", "status", "resources", "network", "external_ip">>
V4Keys == {"", "name", "network", "externalAddress", "ipv4", "value"}
V3Keys == {"", "spec", "status", "name", "resources", "network", "external_ip"}
Keys(ver) == IF ver = "v3" THEN V3Keys ELSE V4Keys

\* the keys that lie inside key k of a record
Inside(ver, k) ==
    LET under(path) == {path[j] : j \in {j \in 1..Len(path) :
                            \E i \in 1..Len(path) : path[i] = k /\ i < j}}
    IN IF k = "" THEN Keys(ver) \ {""}
       ELSE IF ver = "v3" THEN under(V3SpecPath) \cup under(V3StatusPath)
       ELSE under(V4Path)

\* the record of cluster c = <<name, ip>> in the v4 list response
EncodeV4(c) ==
    [k \in V4Keys |-> IF k = "name" THEN JString(c[1])
                      ELSE IF k = "value" THEN JString(c[2]) ELSE JObject]

\* the record of cluster c = <<name, ip>> in the v3 list response
EncodeV3(c) ==
    [k \in V3Keys |-> IF k = "name" THEN JString(c[1])
                      ELSE IF k = "external_ip" THEN JString(c[2]) ELSE JObject]

Encode(ver, c) == IF ver = "v3" THEN EncodeV3(c) ELSE EncodeV4(c)
EncodeAll(ver, clusters) == [i \in 1..Len(clusters) |-> Encode(ver, clusters[i])]

\* record rec with key k holding v instead, and nothing inside k
Damage(ver, rec, k, v) ==
    [g \in DOMAIN rec |-> IF g = k THEN v
                          ELSE IF g \in Inside(ver, k) THEN JAbsent ELSE rec[g]]

\* what the loop body of a parser does with one array element
Panics == <<"panic", "", "">>
Skipped == <<"skip", "", "">>
Cluster(name, ip) == <<"cluster", name, ip>>

\* parseV4Clusters, one element: cluster.(map[string]interface{}),
\* ["network"].(map[string]interface{}) and ["ipv4"].(map[string]interface{})
\* are assertions without the ok result
ParseV4Record(rec) ==
    IF ~IsObject(rec[""]) THEN Panics
    ELSE IF ~IsString(rec["name"]) \/ rec["name"][2] = "Unnamed" THEN Skipped
    ELSE IF ~IsObject(rec["network"]) THEN Panics
    ELSE IF ~IsObject(rec["externalAddress"]) THEN Skipped
    ELSE IF ~IsObject(rec["ipv4"]) THEN Panics
    ELSE IF ~IsString(rec["value"]) THEN Skipped
    ELSE Cluster(rec["name"][2], rec["value"][2])

\* a v3 parser that does not drop the clusters called "Unnamed"
ParseV3RecordKeepsUnnamed(rec) ==
    IF ~IsObject(rec[""]) THEN Panics
    ELSE IF ~IsObject(rec["spec"]) \/ ~IsObject(rec["status"]) THEN Skipped
    ELSE IF ~IsString(rec["name"]) THEN Skipped
    ELSE IF ~IsObject(rec["resources"]) THEN Panics
    ELSE IF ~IsObject(rec["network"]) THEN Skipped
    ELSE IF ~IsString(rec["external_ip"]) THEN Skipped
    ELSE Cluster(rec["name"][2], rec["external_ip"][2])

\* parseV3Clusters, one element: entity.(map[string]interface{}) and
\* status["resources"].(map[string]interface{}) are assertions without the ok
\* result
ParseV3Record(rec) ==
    IF ~IsObject(rec[""]) THEN Panics
    ELSE IF ~IsObject(rec["spec"]) \/ ~IsObject(rec["status"]) THEN Skipped
    ELSE IF ~IsString(rec["name"]) \/ rec["name"][2] = "Unnamed" THEN Skipped
    ELSE IF ~IsObject(rec["resources"]) THEN Panics
    ELSE IF ~IsObject(rec["network"]) THEN Skipped
    ELSE IF ~IsString(rec["external_ip"]) THEN Skipped
    ELSE Cluster(rec["name"][2], rec["external_ip"][2])

\* if version == "v3" { parseV3Clusters } else { parseV4Clusters }
ParseRecord(ver, rec) ==
    IF ver = "v3" THEN ParseV3Record(rec) ELSE ParseV4Record(rec)

\* the parser's loop over the array: it panics at the first element that
\* panics, else returns the clusters of the elements it did not skip
ParseClusters(ver, recs) ==
    LET outs == [i \in 1..Len(recs) |-> ParseRecord(ver, recs[i])]
        isCluster(o) == o[1] = "cluster"
    IN IF \E i \in 1..Len(recs) : outs[i] = Panics THEN <<Panics>>
       ELSE SelectSeq(outs, isCluster)

\* strings.HasPrefix(name, prefix)
HasPrefix(name, prefix) ==
    /\ Len(prefix) <= Len(name)
    /\ \/ Len(prefix) = 0
       \/ SubSeq(name, 1, Len(prefix)) = prefix

\* the filter that keeps every parsed cluster
KeepClusterAlways(name, prefix) == TRUE

\* !(ClusterPrefix != "" && !strings.HasPrefix(name, ClusterPrefix))
KeepCluster(name, prefix) == ~(prefix # "" /\ ~HasPrefix(name, prefix))

\* fmt.Sprintf("https://%s:9440", ip)
ClusterURL(ip) == "https://" \o ip \o ":9440"

\* the loop that builds clusterData: a later cluster of the same name
\* overwrites the earlier one
RECURSIVE BuildClusterData(_, _, _)
BuildClusterData(clusters, prefix, acc) ==
    IF clusters = <<>> THEN acc
    ELSE LET c == Head(clusters)
             next == IF KeepCluster(c[2], prefix)
                     THEN [n \in DOMAIN acc \cup {c[2]} |->
                              IF n = c[2] THEN ClusterURL(c[3]) ELSE acc[n]]
                     ELSE acc
         IN BuildClusterData(Tail(clusters), prefix, next)

\* FetchClusters on a document whose array holds recs
DiscoveryResult(ver, recs, prefix) ==
    BuildClusterData(ParseClusters(ver, recs), prefix, <<>>)

\* the cluster lists Prism Central can hold
SentLists ==
    UNION {[1..len -> ClusterNames \X Addrs] : len \in 0..MaxClusters}

\* FetchClusters: the request and json.NewDecoder(resp.Body).Decode(&result)
FetchRequest ==
    /\ dpc = "idle"
    /\ \E ver \in Versions, prefix \in Prefixes :
         /\ version' = ver
         /\ ClusterPrefix' = prefix
         /\ \/ \E why \in {"transport", "decode"} :
                 /\ derr' = why
                 /\ dpc' = "done"
                 /\ UNCHANGED <<sent, listOk, records>>
            \/ \E list \in SentLists, ok \in BOOLEAN :
                 /\ sent' = list
                 /\ listOk' = ok
                 /\ dpc' = "decoded"
                 /\ UNCHANGED derr
                 /\ \/ records' = EncodeAll(ver, list)
                    \/ \E i \in 1..Len(list), k \in Keys(ver),
                          v \in {JAbsent, JOther} :
                         records' = [EncodeAll(ver, list) EXCEPT
                                        ![i] = Damage(ver, @, k, v)]
    /\ UNCHANGED <<parsed, clusterData>>
    /\ UNCHANGED <<exit, routeVars, clusterVars, scrapeVars, collectorVars,
                   tableVars, gaugeVars, sideVars>>

\* clusters, err := parseClusters(result)
ParseResponse ==
    /\ dpc = "decoded"
    /\ IF ~listOk
       THEN /\ derr' = "format"
            /\ dpc' = "done"
            /\ UNCHANGED parsed
       ELSE IF ParseClusters(version, records) = <<Panics>>
       THEN /\ derr' = "panic"
            /\ dpc' = "done"
            /\ UNCHANGED parsed
       ELSE /\ parsed' = ParseClusters(version, records)
            /\ dpc' = "parsed"
            /\ UNCHANGED derr
    /\ UNCHANGED <<version, ClusterPrefix, sent, listOk, records, clusterData>>
    /\ UNCHANGED <<exit, routeVars, clusterVars, scrapeVars, collectorVars,
                   tableVars, gaugeVars, sideVars>>

\* the loop over clusters and return clusterData, nil
ReturnClusterData ==
    /\ dpc = "parsed"
    /\ clusterData' = BuildClusterData(parsed, ClusterPrefix, <<>>)
    /\ dpc' = "done"
    /\ UNCHANGED <<version, ClusterPrefix, sent, listOk, records, parsed, derr>>
    /\ UNCHANGED <<exit, routeVars, clusterVars, scrapeVars, collectorVars,
                   tableVars, gaugeVars, sideVars>>

DiscoveryNext ==
    \/ FetchRequest
    \/ ParseResponse
    \/ ReturnClusterData

DiscoverySpec == Init /\ [][DiscoveryNext]_vars

(* ----------------------------- collectors ------------------------------ *)
\* collectors registered per registry, scrapes, list entries and fields per
\* entity of a response document
NumRegistered == 2
MaxGathers == 2
MaxEntities == 1
MaxFields == 1

UpperCase == "ABCDEFGHIJKLMNOPQRSTUVWXYZ"
LowerCase == "abcdefghijklmnopqrstuvwxyz"
\* strings.ToLower, one character
ToLower(c) ==
    IF \E i \in 1..Len(UpperCase) : SubSeq(UpperCase, i, i) = c
    THEN LET i == CHOOSE i \in 1..Len(UpperCase) : SubSeq(UpperCase, i, i) = c
         IN SubSeq(LowerCase, i, i)
    ELSE c
\* strings.NewReplacer(".", "_", "-", "_", ":", "_"), then ToLower
NormalizeChar(c) == IF c \in {".", "-", ":"} THEN "_" ELSE ToLower(c)
RECURSIVE normalizeKey(_)
normalizeKey(key) ==
    IF Len(key) = 0 THEN ""
    ELSE NormalizeChar(SubSeq(key, 1, 1)) \o normalizeKey(SubSeq(key, 2, Len(key)))

\* A float64 is written as the shortest decimal text that denotes it ("3.5",
\* "1000", "+Inf"); a JSON number holds the float64 it decodes to.
JNumber(f) == <<"number", f>>
\* a JSON true, false or null
JBool == <<"bool", "true">>
JNull == <<"null", "">>
\* the strings strconv.ParseFloat(text, 64) accepts among those the model
\* sends, with the float64 each denotes: decimal, exponent and hexadecimal
\* notation and the spellings of infinity
Parsable ==
    {<<"5", "5">>, <<"100", "100">>, <<"3.5", "3.5">>, <<"3.50", "3.5">>,
     <<"-2", "-2">>, <<"1e3", "1000">>, <<"0x1p4", "16">>, <<"Inf", "+Inf">>,
     <<"infinity", "+Inf">>}
\* strconv.ParseFloat(text, 64): <<err == nil, f>>
ParseFloat(text) ==
    IF \E p \in Parsable : p[1] = text
    THEN <<TRUE, (CHOOSE p \in Parsable : p[1] = text)[2]>>
    ELSE <<FALSE, "0">>

\* a conversion without the "on" case
valueToFloat64NoOn(v) ==
    IF v[1] = "number" THEN v[2]
    ELSE IF v[1] = "string"
         THEN IF v[2] = "off" \/ v[2] = "OFF" THEN "0"
              ELSE IF ParseFloat(v[2])[1] THEN ParseFloat(v[2])[2]
              ELSE "0"
    ELSE "0"

valueToFloat64(v) ==
    IF v[1] = "number" THEN v[2]
    ELSE IF v[1] = "string"
         THEN IF v[2] = "on" THEN "1"
              ELSE IF v[2] = "off" \/ v[2] = "OFF" THEN "0"
              ELSE IF ParseFloat(v[2])[1] THEN ParseFloat(v[2])[2]
              ELSE "0"
    ELSE "0"

\* e.Metrics after initMetrics: the metric names of the collector's config
Metrics(kind) == {"num_cpu", "storage_usage_bytes", "stats_num_cpu"}

\* a lookup that finds a gauge for every key
MetricExistsAlways(kind, normKey) == TRUE

\* g, exists := e.Metrics[normKey]
MetricExists(kind, normKey) == normKey \in Metrics(kind)

\* A JSON object is the set of its leaves <<path, value>>; an array element
\* that is no object is the one leaf with the empty path.
Leaf(path, v) == <<path, v>>
FieldPool ==
    {Leaf(<<"Num-CPU">>, JNumber("5")),
     Leaf(<<"uptime">>, JNumber("100")),
     Leaf(<<"usage_stats", "storage.usage_bytes">>, JNumber("100")),
     Leaf(<<"usage_stats", "uptime">>, JString("on")),
     Leaf(<<"stats", "Num-CPU">>, JString("on"))}
EntityNames == {"h1", "h2"}
Objects == {f \in SUBSET FieldPool : Cardinality(f) <= MaxFields}
Entities ==
    {{Leaf(<<>>, JOther)}} \cup Objects
    \cup {{Leaf(<<"name">>, JString(n))} \cup f : n \in EntityNames, f \in Objects}
\* the documents a list endpoint or the cluster endpoint answers with
\* the top-level "metadata" block of a list response, when it has one
Metadatas == {{}, {Leaf(<<"metadata", "Num-CPU">>, JNumber("5"))}}
Docs ==
    {[list |-> TRUE, entities |-> es, top |-> md] :
        es \in UNION {[1..len -> Entities] : len \in 0..MaxEntities},
        md \in Metadatas}
    \cup {[list |-> FALSE, entities |-> <<>>, top |-> o] : o \in Objects}

TopKeys(o) == {l[1][1] : l \in {l \in o : Len(l[1]) >= 1}}
NestedKeys(o, k) == {l[1][2] : l \in {l \in o : Len(l[1]) >= 2 /\ l[1][1] = k}}
\* the value under a path of the object: a leaf, or a nested object
ValueAt(o, path) ==
    IF \E l \in o : l[1] = path THEN (CHOOSE l \in o : l[1] = path)[2]
    ELSE JObject
\* the object under key k of the object
Sub(o, k) ==
    {Leaf(Tail(l[1]), l[2]) : l \in {l \in o : Len(l[1]) >= 2 /\ l[1][1] = k}}
\* every flatMap[flatKey] = value the loops of flattenMap execute
RECURSIVE FlattenPairs(_, _)
FlattenPairs(prefix, nestedMap) ==
    UNION {LET flatKey == IF prefix # "" THEN prefix \o "_" \o key ELSE key
               value == ValueAt(nestedMap, <<key>>)
           IN IF IsObject(value)
              THEN FlattenPairs(flatKey, Sub(nestedMap, key))
              ELSE {<<flatKey, value>>}
           : key \in TopKeys(nestedMap)}
\* the maps flattenMap can return: of two writes to one flat key the later
\* stays, and Go leaves the order of a map iteration open
flattenMap(prefix, nestedMap) ==
    LET pairs == FlattenPairs(prefix, nestedMap)
    IN {m \in SUBSET pairs :
           /\ \A p \in pairs : \E q \in m : q[1] = p[1]
           /\ \A p, q \in m : p[1] = q[1] => p = q}
\* ent, ok := entity.(map[string]interface{})
IsEntityObject(e) == \A l \in e : Len(l[1]) >= 1
\* name, _ := ent["name"].(string)
NameOf(e) ==
    IF "name" \in TopKeys(e) /\ IsString(ValueAt(e, <<"name">>))
    THEN ValueAt(e, <<"name">>)[2] ELSE ""
\* data as the cluster collector ranges over it: the array under "entities"
\* is one more top-level value
DataObject(doc) ==
    doc.top \cup (IF doc.list THEN {Leaf(<<"entities">>, JOther)} ELSE {})

\* the keys a loop `for key, value := range m` meets, normalized, with the
\* label and the number Set would get: <<normKey, label, value>>
TopVisits(o, label) ==
    {<<normalizeKey(k), label, valueToFloat64(ValueAt(o, <<k>>))>> : k \in TopKeys(o)}
NestedVisits(o, label, under) ==
    UNION {{<<normalizeKey(j), label, valueToFloat64(ValueAt(o, <<k, j>>))>> :
               j \in NestedKeys(o, k)} : k \in under}

\* what the updateMetrics of a collector type visits in one entity
EntityVisits(kind, e) ==
    IF kind = "storage" THEN NestedVisits(e, NameOf(e), {"usage_stats"})
    ELSE IF kind = "host"
         THEN TopVisits(e, NameOf(e)) \cup NestedVisits(e, NameOf(e), TopKeys(e))
    ELSE TopVisits(e, NameOf(e))

\* the visits that find a gauge: g.WithLabelValues(...).Set(...)
GaugeSets(kind, visits) == {v \in visits : MetricExists(kind, v[1])}

\* the series after the Set calls of one map iteration, whose order Go leaves
\* open: of two visits to the same series either may come last
ApplySets(store, sets) ==
    LET same(t, u) == t[1] = u[1] /\ t[2] = u[2]
        finals == {n \in SUBSET sets :
                      /\ \A v \in sets : \E u \in n : same(u, v)
                      /\ \A t, u \in n : same(t, u) => t = u}
    IN {{t \in store : ~\E u \in n : same(t, u)} \cup n : n \in finals}

RECURSIVE UpdateEntities(_, _, _)
UpdateEntities(kind, entities, stores) ==
    IF entities = <<>> THEN stores
    ELSE LET e == Head(entities)
         IN UpdateEntities(kind, Tail(entities),
                IF IsEntityObject(e)
                THEN UNION {ApplySets(st, GaugeSets(kind, EntityVisits(kind, e))) :
                               st \in stores}
                ELSE stores)

\* updateMetrics of the collector type: the stores it can leave behind
updateMetrics(kind, doc, store) ==
    IF kind = "cluster"
    THEN ApplySets(store, GaugeSets(kind,
             TopVisits(DataObject(doc), "")
             \cup NestedVisits(DataObject(doc), "", TopKeys(DataObject(doc)))))
    ELSE IF doc.list THEN UpdateEntities(kind, doc.entities, {store})
    ELSE {store}

\* what fetchData can return to Collect
FetchResults ==
    {"knownStale", "authErr"}
    \cup {ResponseResult(r[1], r[2]) : r \in {r \in Responses : ~IsAuthFailure(r[1])}}

\* a Collect that sends the gauges it holds also when the fetch failed
EmittedAlways(result, store) == store

\* Collect: return on err, else every gaugeVec.Collect(ch)
Emitted(result, store) == IF result = "ok" THEN store ELSE {}

\* SetupClusters: cluster.Registry.MustRegister(collector)
RegisterCollectors ==
    /\ registry = {}
    /\ \E cs \in SUBSET Kinds :
         /\ Cardinality(cs) = NumRegistered
         /\ registry' = cs
    /\ UNCHANGED <<gathers, gpc, gres, requests, emitted, gdoc, gaugeVals>>
    /\ UNCHANGED <<exit, routeVars, clusterVars, scrapeVars, collectorVars,
                   tableVars, discoveryVars, sideVars>>

\* promhttp's handler calls Registry.Gather: every registered collector's
\* Collect runs, each in its own goroutine
Gather ==
    /\ registry # {}
    /\ gathers < MaxGathers
    /\ \A c \in registry : gpc[c] \in {"idle", "done"}
    /\ gathers' = gathers + 1
    /\ gpc' = [c \in Kinds |-> IF c \in registry THEN "collect" ELSE gpc[c]]
    /\ gres' = [c \in Kinds |-> None]
    /\ requests' = [c \in Kinds |-> 0]
    /\ emitted' = [c \in Kinds |-> {}]
    /\ gdoc' = [c \in Kinds |-> NoDoc]
    /\ UNCHANGED <<registry, gaugeVals>>
    /\ UNCHANGED <<exit, routeVars, clusterVars, scrapeVars, collectorVars,
                   tableVars, discoveryVars, sideVars>>

\* Collect of one collector: fetchData, updateMetrics, gaugeVec.Collect(ch)
Collect(c) ==
    /\ gpc[c] = "collect"
    /\ \E result \in FetchResults :
         /\ gres' = [gres EXCEPT ![c] = result]
         /\ requests' = [requests EXCEPT ![c] =
                            IF result = "knownStale" THEN 0 ELSE 1]
         /\ IF result = "ok"
            THEN \E doc \in Docs :
                   /\ gdoc' = [gdoc EXCEPT ![c] = doc]
                   /\ \E store \in updateMetrics(c, doc, gaugeVals[c]) :
                        /\ gaugeVals' = [gaugeVals EXCEPT ![c] = store]
                        /\ emitted' = [emitted EXCEPT ![c] = Emitted(result, store)]
            ELSE /\ emitted' = [emitted EXCEPT ![c] = Emitted(result, gaugeVals[c])]
                 /\ UNCHANGED <<gdoc, gaugeVals>>
    /\ gpc' = [gpc EXCEPT ![c] = "done"]
    /\ UNCHANGED <<registry, gathers>>
    /\ UNCHANGED <<exit, routeVars, clusterVars, scrapeVars, collectorVars,
                   tableVars, discoveryVars, sideVars>>

CollectNext ==
    \/ RegisterCollectors
    \/ Gather
    \/ \E c \in Kinds : Collect(c)

CollectSpec == Init /\ [][CollectNext]_vars

(* ----------------------- the base Exporter's helpers -------------------- *)
\* leaves of a document handed to flattenMap
MaxLeaves == 3

\* the values a decoded JSON document can hand to valueToFloat64
CoerceInputs ==
    {JNumber(f) : f \in {"5", "3.5", "0", "-2"}}
    \cup {JString(t) : t \in {"on", "ON", "off", "OFF", "Off", "oFF", "3.5",
                             "3.50", "5", "-2", "1e3", "0x1p4", "Inf",
                             "infinity", "garbage", "", " 5", "true"}}
    \cup {JBool, JNull, JObject, JOther}

\* leaves of nested documents: up to three levels, an empty key, empty
\* objects, and keys that already hold an underscore
DeepPool ==
    {Leaf(<<"a">>, JNumber("5")),
     Leaf(<<"a", "b">>, JString("on")),
     Leaf(<<"a_b">>, JNumber("100")),
     Leaf(<<"a", "b", "c">>, JNumber("3.5")),
     Leaf(<<"a", "e">>, JObject),
     Leaf(<<"d">>, JObject),
     Leaf(<<"", "x">>, JNumber("5")),
     Leaf(<<"x">>, JOther)}
\* p is a proper prefix of q
ProperPrefix(p, q) == Len(p) < Len(q) /\ SubSeq(q, 1, Len(p)) = p
\* sets of leaves that are a document: no key holds two values
IsDocument(o) ==
    \A l, m \in o : (l # m) => (l[1] # m[1] /\ ~ProperPrefix(l[1], m[1]))
NestedDocs ==
    {o \in SUBSET DeepPool : Cardinality(o) <= MaxLeaves /\ IsDocument(o)}
\* a flat map as the document it is
AsDocument(flat) == {Leaf(<<p[1]>>, p[2]) : p \in flat}

\* the variables the helpers leave alone
notEngineVars == <<exit, routeVars, clusterVars, scrapeVars, collectorVars,
                   tableVars, discoveryVars, gaugeVars, cancelVars,
                   clientVars>>

\* e.valueToFloat64(value)
Coerce ==
    /\ epc = "idle"
    /\ \E v \in CoerceInputs :
         /\ evalue' = v
         /\ efloat' = valueToFloat64(v)
    /\ epc' = "coerced"
    /\ UNCHANGED <<edoc, eflat, eagain>>
    /\ UNCHANGED notEngineVars

\* e.flattenMap("", ent)
Flatten ==
    /\ epc = "idle"
    /\ \E d \in NestedDocs :
         /\ edoc' = d
         /\ eflat' \in flattenMap("", d)
    /\ epc' = "flattened"
    /\ UNCHANGED <<evalue, efloat, eagain>>
    /\ UNCHANGED notEngineVars

\* e.flattenMap("", flat) for a map flattenMap returned
FlattenAgain ==
    /\ epc = "flattened"
    /\ eagain' \in flattenMap("", AsDocument(eflat))
    /\ epc' = "again"
    /\ UNCHANGED <<evalue, efloat, edoc, eflat>>
    /\ UNCHANGED notEngineVars

EngineNext ==
    \/ Coerce
    \/ Flatten
    \/ FlattenAgain

EngineSpec == Init /\ [][EngineNext]_vars

(* --------------------------- cancellation ------------------------------ *)
\* the parent of the context Collect derives for fetchData in scrape s:
\* context.WithTimeout(context.Background(), 10*time.Second)
Background == "background"
Request(s) == "request"
\* the collectors gathered for one scrape request
Gathered == 1..NumGathered
FetchContextParent(s) == Background

\* the variables cancellation leaves alone
notCancelVars == <<exit, routeVars, clusterVars, scrapeVars, collectorVars,
                   tableVars, discoveryVars, gaugeVars, engineVars,
                   clientVars>>

\* net/http hands the request to the cluster's handler
ServeHTTP(s) ==
    /\ rctx[s] = None
    /\ rctx' = [rctx EXCEPT ![s] = "live"]
    /\ UNCHANGED fetchCtx
    /\ UNCHANGED notCancelVars

\* Gather calls a collector's Collect, which makes the fetch's context; a
\* child of a context that is already done is done from the start
CollectStart(s, k) ==
    /\ rctx[s] \in {"live", "cancelled"}
    /\ fetchCtx[s][k] = None
    /\ fetchCtx' = [fetchCtx EXCEPT ![s][k] =
                       IF FetchContextParent(s) = Request(s) /\ rctx[s] = "cancelled"
                       THEN "cancelled" ELSE "live"]
    /\ UNCHANGED rctx
    /\ UNCHANGED notCancelVars

\* the client went away or the request's deadline passed: r.Context() is
\* done, and with it every context derived from it
RequestCancel(s) ==
    /\ rctx[s] = "live"
    /\ rctx' = [rctx EXCEPT ![s] = "cancelled"]
    /\ fetchCtx' = [fetchCtx EXCEPT ![s] =
                       [k \in Gathered |->
                           IF FetchContextParent(s) = Request(s) /\ fetchCtx[s][k] = "live"
                           THEN "cancelled" ELSE fetchCtx[s][k]]]
    /\ UNCHANGED notCancelVars

\* the fetch's own 10 s run out
FetchDeadline(s, k) ==
    /\ fetchCtx[s][k] = "live"
    /\ fetchCtx' = [fetchCtx EXCEPT ![s][k] = "deadline"]
    /\ UNCHANGED rctx
    /\ UNCHANGED notCancelVars

\* the response arrived and Collect returned: defer cancel()
FetchFinish(s, k) ==
    /\ fetchCtx[s][k] = "live"
    /\ fetchCtx' = [fetchCtx EXCEPT ![s][k] = "finished"]
    /\ UNCHANGED rctx
    /\ UNCHANGED notCancelVars

\* every Collect returned and the handler wrote the response
ServeHTTPReturn(s) ==
    /\ rctx[s] \in {"live", "cancelled"}
    /\ \A k \in Gathered : fetchCtx[s][k] \notin {None, "live"}
    /\ rctx' = [rctx EXCEPT ![s] = "done"]
    /\ UNCHANGED fetchCtx
    /\ UNCHANGED notCancelVars

CancelNext ==
    \/ \E s \in Scrapes : ServeHTTP(s)
    \/ \E s \in Scrapes, k \in Gathered : CollectStart(s, k)
    \/ \E s \in Scrapes : RequestCancel(s)
    \/ \E s \in Scrapes, k \in Gathered : FetchDeadline(s, k)
    \/ \E s \in Scrapes, k \in Gathered : FetchFinish(s, k)
    \/ \E s \in Scrapes : ServeHTTPReturn(s)

CancelSpec == Init /\ [][CancelNext]_vars

(* ------------- the cluster's client, one statement at a time ----------- *)
\* the URL FetchClusters reported for an element cluster
ElementURL(n) == ClusterURL(IF n = "DS-East" THEN "10.0.0.1" ELSE "10.0.0.2")

\* the cluster whose client is followed statement by statement
ClientNames == {"DS-East"}

\* NewCluster(name, url, ...): vaultClient.GetPECreds(name)
ConstructionKey(n) == n
\* PEClient.RefreshCredentials: vaultClient.GetPECreds(c.URL)
RefreshKey(n) == ElementURL(n)

\* the variables the client's steps leave alone
notClientVars == <<routeVars, marks, scrapeVars, collectorVars, tableVars,
                   discoveryVars, gaugeVars, engineVars, cancelVars>>

\* SetupClusters: nutanix.NewCluster for one reported cluster; a cluster
\* whose pair is empty is not set up
ClientNewCluster(n) ==
    /\ exit = "running"
    /\ builtKey[n] = None
    /\ builtKey' = [builtKey EXCEPT ![n] = ConstructionKey(n)]
    /\ \E out \in VaultOutcomes :
         IF out = Fatal
         THEN /\ exit' = "setupFatal"
              /\ UNCHANGED <<Username, Password>>
         ELSE /\ exit' = exit
              /\ Username' = [Username EXCEPT ![n] = IF EmptyCreds(out) THEN 0 ELSE out[2]]
              /\ Password' = [Password EXCEPT ![n] = IF EmptyCreds(out) THEN 0 ELSE out[3]]
    /\ UNCHANGED <<RefreshNeeded, Mutex, qpc, qcl, qgot, qkey, quser, qpass, rejected>>
    /\ UNCHANGED notClientVars

\* a scrape request reaches the handler of a cluster that was set up
ClientArrive(s) ==
    /\ exit = "running"
    /\ qpc[s] = "idle"
    /\ \E n \in ClientNames :
         /\ Username[n] # 0
         /\ qcl' = [qcl EXCEPT ![s] = n]
    /\ qpc' = [qpc EXCEPT ![s] = "hook"]
    /\ UNCHANGED <<exit, clusterVars, qgot, qkey, quser, qpass, rejected, builtKey>>
    /\ UNCHANGED <<routeVars, scrapeVars, collectorVars, tableVars,
                   discoveryVars, gaugeVars, engineVars, cancelVars>>

\* RefreshCredentialsIfNeeded: c.Mutex.Lock(); if c.RefreshNeeded; with the
\* flag not set the deferred Unlock() follows at once
ClientLock(s) ==
    /\ exit = "running"
    /\ qpc[s] = "hook"
    /\ MutexFree(qcl[s])
    /\ IF RefreshNeeded[qcl[s]]
       THEN /\ Mutex' = [Mutex EXCEPT ![qcl[s]] = s]
            /\ qpc' = [qpc EXCEPT ![s] = "ask"]
       ELSE /\ qpc' = [qpc EXCEPT ![s] = "fetch"]
            /\ UNCHANGED Mutex
    /\ UNCHANGED <<exit, RefreshNeeded, Username, Password, qcl, qgot, qkey,
                   quser, qpass, rejected, builtKey>>
    /\ UNCHANGED notClientVars

\* RefreshCredentials: vaultClient.GetPECreds(c.URL) and the empty-pair test
ClientAsk(s) ==
    /\ exit = "running"
    /\ qpc[s] = "ask"
    /\ qkey' = [qkey EXCEPT ![s] = RefreshKey(qcl[s])]
    /\ \E out \in VaultOutcomes :
         IF out = Fatal
         THEN /\ exit' = "hookFatal"
              /\ UNCHANGED <<Mutex, qpc, qgot>>
         ELSE IF EmptyCreds(out)
         THEN /\ Mutex' = [Mutex EXCEPT ![qcl[s]] = 0]
              /\ qpc' = [qpc EXCEPT ![s] = "fetch"]
              /\ UNCHANGED <<exit, qgot>>
         ELSE /\ qgot' = [qgot EXCEPT ![s] = out]
              /\ qpc' = [qpc EXCEPT ![s] = "setUser"]
              /\ UNCHANGED <<exit, Mutex>>
    /\ UNCHANGED <<RefreshNeeded, Username, Password, qcl, quser, qpass,
                   rejected, builtKey>>
    /\ UNCHANGED notClientVars

\* c.Username = username
ClientSetUsername(s) ==
    /\ exit = "running"
    /\ qpc[s] = "setUser"
    /\ Username' = [Username EXCEPT ![qcl[s]] = qgot[s][2]]
    /\ qpc' = [qpc EXCEPT ![s] = "setPass"]
    /\ UNCHANGED <<exit, RefreshNeeded, Mutex, Password, qcl, qgot, qkey,
                   quser, qpass, rejected, builtKey>>
    /\ UNCHANGED notClientVars

\* c.Password = password; return nil; c.RefreshNeeded = false; Unlock()
ClientSetPassword(s) ==
    /\ exit = "running"
    /\ qpc[s] = "setPass"
    /\ Password' = [Password EXCEPT ![qcl[s]] = qgot[s][3]]
    /\ RefreshNeeded' = [RefreshNeeded EXCEPT ![qcl[s]] = FALSE]
    /\ Mutex' = [Mutex EXCEPT ![qcl[s]] = 0]
    /\ qpc' = [qpc EXCEPT ![s] = "fetch"]
    /\ UNCHANGED <<exit, Username, qcl, qgot, qkey, quser, qpass, rejected,
                   builtKey>>
    /\ UNCHANGED notClientVars

\* fetchData: if e.Cluster.RefreshNeeded { return ... known stale creds }
ClientReadFlag(s) ==
    /\ exit = "running"
    /\ qpc[s] = "fetch"
    /\ qpc' = [qpc EXCEPT ![s] =
                  IF RefreshNeeded[qcl[s]] THEN "end" ELSE "readUser"]
    /\ UNCHANGED <<exit, clusterVars, qcl, qgot, qkey, quser, qpass, rejected,
                   builtKey>>
    /\ UNCHANGED <<routeVars, scrapeVars, collectorVars, tableVars,
                   discoveryVars, gaugeVars, engineVars, cancelVars>>

\* CreateRequest: req.SetBasicAuth(c.Username, c.Password) evaluates
\* c.Username ...
ClientReadUsername(s) ==
    /\ exit = "running"
    /\ qpc[s] = "readUser"
    /\ quser' = [quser EXCEPT ![s] = Username[qcl[s]]]
    /\ qpc' = [qpc EXCEPT ![s] = "readPass"]
    /\ UNCHANGED <<exit, clusterVars, qcl, qgot, qkey, qpass, rejected, builtKey>>
    /\ UNCHANGED <<routeVars, scrapeVars, collectorVars, tableVars,
                   discoveryVars, gaugeVars, engineVars, cancelVars>>

\* ... then c.Password, and client.Do(req) sends the request
ClientReadPassword(s) ==
    /\ exit = "running"
    /\ qpc[s] = "readPass"
    /\ qpass' = [qpass EXCEPT ![s] = Password[qcl[s]]]
    /\ qpc' = [qpc EXCEPT ![s] = "sent"]
    /\ UNCHANGED <<exit, clusterVars, qcl, qgot, qkey, quser, rejected, builtKey>>
    /\ UNCHANGED <<routeVars, scrapeVars, collectorVars, tableVars,
                   discoveryVars, gaugeVars, engineVars, cancelVars>>

\* the answer to the request arrives; a 401 or 403 rejects the pair the
\* request carried
ClientResponse(s) ==
    /\ exit = "running"
    /\ qpc[s] = "sent"
    /\ \E resp \in Responses :
         IF resp[1] # 0 /\ IsAuthFailure(resp[1])
         THEN /\ rejected' = [rejected EXCEPT ![qcl[s]] = @ \cup {<<quser[s], qpass[s]>>}]
              /\ qpc' = [qpc EXCEPT ![s] = "auth"]
         ELSE /\ qpc' = [qpc EXCEPT ![s] = "end"]
              /\ UNCHANGED rejected
    /\ UNCHANGED <<exit, clusterVars, qcl, qgot, qkey, quser, qpass, builtKey>>
    /\ UNCHANGED <<routeVars, scrapeVars, collectorVars, tableVars,
                   discoveryVars, gaugeVars, engineVars, cancelVars>>

\* Mutex.Lock(); if !RefreshNeeded { RefreshNeeded = true }; Mutex.Unlock()
ClientMarkStale(s) ==
    /\ exit = "running"
    /\ qpc[s] = "auth"
    /\ MutexFree(qcl[s])
    /\ RefreshNeeded' = [RefreshNeeded EXCEPT ![qcl[s]] = TRUE]
    /\ qpc' = [qpc EXCEPT ![s] = "end"]
    /\ UNCHANGED <<exit, Mutex, Username, Password, qcl, qgot, qkey, quser,
                   qpass, rejected, builtKey>>
    /\ UNCHANGED notClientVars

\* Collect returned and the handler wrote the response
ClientEnd(s) ==
    /\ exit = "running"
    /\ qpc[s] = "end"
    /\ qpc' = [qpc EXCEPT ![s] = "idle"]
    /\ qcl' = [qcl EXCEPT ![s] = None]
    /\ qgot' = [qgot EXCEPT ![s] = NoCreds]
    /\ qkey' = [qkey EXCEPT ![s] = None]
    /\ quser' = [quser EXCEPT ![s] = 0]
    /\ qpass' = [qpass EXCEPT ![s] = 0]
    /\ UNCHANGED <<exit, clusterVars, rejected, builtKey>>
    /\ UNCHANGED <<routeVars, scrapeVars, collectorVars, tableVars,
                   discoveryVars, gaugeVars, engineVars, cancelVars>>

ClientNext ==
    \/ \E n \in ClientNames : ClientNewCluster(n)
    \/ \E s \in Scrapes :
         \/ ClientArrive(s)
         \/ ClientLock(s)
         \/ ClientAsk(s)
         \/ ClientSetUsername(s)
         \/ ClientSetPassword(s)
         \/ ClientReadFlag(s)
         \/ ClientReadUsername(s)
         \/ ClientReadPassword(s)
         \/ ClientResponse(s)
         \/ ClientMarkStale(s)
         \/ ClientEnd(s)

ClientSpec == Init /\ [][ClientNext]_vars

(* ------------------------------- claims -------------------------------- *)
AuthStatuses == {401, 403}
ClientErrors == 400..499

\* collector k of scrape s takes the step in which its fetchData returns
Returns(s, k) == cpc[s][k] # "done" /\ cpc'[s][k] = "done"

\* the fetch that returns in this step had received status st
Received(s, k, st) == cstatus[s][k] = st \/ cstatus'[s][k] = st

\* n's flag goes from false to true only in the step of a fetch on n that
\* holds a 401 or 403 response
FlagSetOnlyByAuthFetch ==
    \A n \in Names :
        (~RefreshNeeded[n] /\ RefreshNeeded'[n]) =>
            \E s \in Scrapes, k \in Collectors :
                /\ target[s] = n
                /\ cpc[s][k] = "auth" /\ cpc'[s][k] = "marked"
                /\ cstatus[s][k] \in AuthStatuses

\* a 401 or 403 response always takes the fetch into the auth branch
AuthResponseTakesAuthBranch ==
    \A s \in Scrapes, k \in Collectors :
        (cstatus[s][k] = 0 /\ cstatus'[s][k] \in AuthStatuses) =>
            cpc'[s][k] = "auth"

\* C1 as stated: the flag is set only by a fetch that received 401/403, and
\* every fetch that received 401/403 returns an error with the flag true at
\* the moment it returns.
C1_FlagTrueWhenAuthFetchReturns ==
    [][/\ FlagSetOnlyByAuthFetch
       /\ AuthResponseTakesAuthBranch
       /\ \A s \in Scrapes, k \in Collectors :
            (Returns(s, k) /\ \E st \in AuthStatuses : Received(s, k, st)) =>
                /\ cres'[s][k] = "authErr"
                /\ RefreshNeeded'[Cl(s)]]_vars

\* C1 amended: the flag is set only by a fetch that received 401/403; every
\* fetch that received 401/403 leaves the flag true when it releases the
\* cluster's mutex, and then returns the authentication error.
C1_FlagTrueWhenAuthFetchUnlocks ==
    [][/\ FlagSetOnlyByAuthFetch
       /\ AuthResponseTakesAuthBranch
       /\ \A s \in Scrapes, k \in Collectors :
            /\ (cpc[s][k] = "auth" /\ cpc'[s][k] # "auth") =>
                   RefreshNeeded'[Cl(s)]
            /\ (Returns(s, k) /\ \E st \in AuthStatuses : Received(s, k, st)) =>
                   /\ cpc[s][k] \in {"marked", "seen"}
                   /\ cres'[s][k] = "authErr"]_vars

\* a fetch that received a 401/403 has returned its error and the flag is set
C1_Witness ==
    \E s \in Scrapes, k \in Collectors :
        /\ cpc[s][k] = "done" /\ cres[s][k] = "authErr"
        /\ RefreshNeeded[Cl(s)]

C3_StaleFetchSendsNothing ==
    [][\A s \in Scrapes, k \in Collectors :
        (cpc[s][k] = "start" /\ cpc'[s][k] # "start" /\ RefreshNeeded[Cl(s)])
            => (cpc'[s][k] = "done" /\ cres'[s][k] = "knownStale"
                /\ cstatus'[s][k] = 0)]_vars

\* C4: the hook of a scrape that finds the flag set and gets a non-empty
\* pair writes that pair into the client and clears the flag before any
\* collector of the scrape starts; a hook that finds the flag clear goes
\* straight to the collectors, leaving credentials and flag alone.
C4_HookRefreshesBeforeCollectors ==
    [][\A s \in Scrapes :
        /\ hpc[s] # "collect" => \A k \in Collectors : cpc[s][k] = "idle"
        /\ (hpc[s] = "hook" /\ hpc'[s] # "hook") =>
              IF RefreshNeeded[Cl(s)]
              THEN hpc'[s] = "refresh"
              ELSE /\ hpc'[s] = "collect"
                   /\ UNCHANGED <<Username, Password, RefreshNeeded>>
        /\ (hpc[s] = "refresh" /\ hpc'[s] = "setPass") =>
              (~EmptyCreds(pending'[s]) /\ Username'[Cl(s)] = pending'[s][2])
        /\ (hpc[s] = "setPass" /\ hpc'[s] # "setPass") =>
              /\ hpc'[s] = "collect"
              /\ Username'[Cl(s)] = pending[s][2]
              /\ Password'[Cl(s)] = pending[s][3]
              /\ ~RefreshNeeded'[Cl(s)]
              /\ \A k \in Collectors : cpc'[s][k] = "start"]_vars

\* a scrape's hook has just replaced the pair and cleared the flag; none of
\* its collectors has started
C4_Witness ==
    \E s \in Scrapes :
        /\ hpc[s] = "collect" /\ hookDid[s] = "refreshed"
        /\ \A k \in Collectors : cpc[s][k] = "start"
        /\ ~RefreshNeeded[Cl(s)]
        /\ <<Username[Cl(s)], Password[Cl(s)]>> = <<pending[s][2], pending[s][3]>>

\* C5: when the refresh of a stale cluster fails (the provider fails or
\* returns no pair) the flag stays set, the pair is unchanged and the
\* exporter keeps running.
C5_FailedRefreshKeepsServing ==
    [][\A s \in Scrapes :
        (HookRefresh(s) /\ hpc'[s] # "setPass") =>
            /\ exit' = "running"
            /\ RefreshNeeded'[Cl(s)]
            /\ Username'[Cl(s)] = Username[Cl(s)]
            /\ Password'[Cl(s)] = Password[Cl(s)]]_vars

\* C6: no goroutine reads a cluster's flag unsynchronised with a write of it:
\* no collector is about to read the flag while a write made by another
\* goroutine since the collector's scrape last held the mutex is unordered
\* with that read.
C6_NoUnsynchronisedFlagRead ==
    \A s \in Scrapes, k \in Collectors : ~(cpc[s][k] = "start" /\ raced[s])

\* C7: at most one refreshCredentials call per cluster is in progress, and a
\* scrape that arrived while one was in progress is still waiting in its hook
\* for as long as that refresh has not finished.
C7_RefreshesSerialised ==
    /\ \A n \in Names :
         Cardinality({s \in Scrapes : target[s] = n /\ hpc[s] \in RefreshPcs}) <= 1
    /\ \A s \in Scrapes :
         /\ behind[s] # {} => hpc[s] = "hook"
         /\ \A r \in behind[s] : hpc[r] \in RefreshPcs /\ target[r] = target[s]

\* a scrape arrived while another scrape's refresh of the same cluster was in
\* progress and waits for the mutex
C7_Witness ==
    \E s \in Scrapes : behind[s] # {} /\ hpc[s] = "hook"

\* C8: any 4xx response to a fetch marks the cluster for a credential
\* refresh: a fetch that holds a 4xx response is in the branch that sets the
\* flag.
C8_Any4xxMarksStale ==
    \A s \in Scrapes, k \in Collectors :
        cstatus[s][k] \in ClientErrors => cpc[s][k] \in {"auth", "marked", "seen"}

\* C9: a stale cluster is never stuck: as long as its flag is set the
\* exporter is alive to serve the scrape whose hook refreshes it.
C9_StaleClusterCanRecover ==
    \A n \in Names : RefreshNeeded[n] => exit # "hookFatal"

\* C10: a route is registered on the mux only when the route table does not
\* hold it yet, so the mux never sees a pattern twice.
C10_NoRouteRegisteredTwice ==
    /\ exit # "muxPanic"
    /\ muxPatterns = registeredRoutes

\* a discovery cycle met a route that was already registered and skipped it
C10_Witness ==
    /\ lastSkipped /\ exit = "running"
    /\ registeredRoutes # {}

\* goroutine ctx is inside updateHTTPHandlers
InUpdate(ctx) == IF ctx = "main" THEN mainPc = "register" ELSE tickPc = "update"

\* this step is the updateHTTPHandlers call of a goroutine
Registers == \/ mainPc = "register" /\ mainPc' = "serve"
             \/ tickPc = "update" /\ tickPc' = "wait"

\* C11: the set of registered routes only grows: a route once registered
\* stays in the route table and on the mux, and keeps a handler, also when a
\* later discovery no longer reports its cluster.
C11_RoutesOnlyGrow ==
    [][/\ registeredRoutes \subseteq registeredRoutes'
       /\ muxPatterns \subseteq muxPatterns'
       /\ \A n \in Names : handlers[n] # NoObject => handlers'[n] # NoObject]_vars

\* a cycle of the ticker ended whose discovery did not report the cluster of
\* a registered route, and the route is still registered
C11_Witness ==
    /\ lastCycle = "ok" /\ tickPc = "wait" /\ exit = "running"
    /\ \E n \in Names : Route(n) \in registeredRoutes /\ latest[n] = NoObject

\* C12: an updateHTTPHandlers call whose clusterMap holds a name that is
\* already registered leaves that route's handler bound to the object it was
\* first registered with (URL, credentials, staleness flag), also when the
\* rediscovered cluster has another URL.
C12_RediscoveryKeepsFirstObject ==
    [][\A c \in Contexts, n \in Names :
        (Registers /\ InUpdate(c) /\ Route(n) \in registeredRoutes
                   /\ clusterObjs[c][n] # NoObject) =>
            /\ handlers'[n] = handlers[n]
            /\ handlers'[n] = firstBound[n]
            /\ Username'[n] = Username[n] /\ Password'[n] = Password[n]
            /\ RefreshNeeded'[n] = RefreshNeeded[n]]_vars

\* a cycle ended that rediscovered a registered, stale cluster under another
\* URL
C12_Witness ==
    /\ lastCycle = "ok" /\ tickPc = "wait" /\ exit = "running"
    /\ \E n \in Names :
         /\ latest[n] # NoObject /\ handlers[n] # NoObject
         /\ latest[n][1] # handlers[n][1]
         /\ RefreshNeeded[n]

\* C13 as stated: once a cycle has rediscovered a cluster, the scrapes of its
\* route are served by the object that cycle created.
C13_ScrapeServedByFreshObject ==
    [][\A n \in Names :
        (RouteScrape(n) /\ tickPc = "wait" /\ latest[n] # NoObject) =>
            served'[n] = latest[n]]_vars

\* C13 amended: every SetupClusters run creates fresh objects for the clusters
\* it reports, and a scrape of a route is served by the object the route was
\* first registered with, whatever later cycles created.
C13_ScrapeServedByFirstObject ==
    [][/\ latest' # latest =>
            /\ cycle' = cycle + 1
            /\ \A n \in Names : latest'[n] # NoObject => latest'[n][2] = cycle'
       /\ \A n \in Names :
            RouteScrape(n) =>
                (firstBound[n] # NoObject /\ served'[n] = firstBound[n])]_vars

\* a scrape was served by the first object of its route after a cycle had
\* created a fresh object for the same cluster
C13_Witness ==
    /\ lastCycle = "ok" /\ tickPc = "wait"
    /\ \E n \in Names :
         /\ served[n] # NoObject /\ latest[n] # NoObject
         /\ served[n][2] < latest[n][2]

\* C14: a cycle of the ticker that fails (discovery error, or a provider
\* failure while a discovered cluster is constructed) leaves the route table,
\* the handlers and the registered clusters alone, the exporter keeps running
\* and the ticker goroutine waits for the next tick.
C14_FailedCycleIsSkipped ==
    [][(TickSetup /\ lastCycle' \in {"error", "fatal"} /\ tickPc' = "wait") =>
            /\ exit' = "running"
            /\ UNCHANGED <<registeredRoutes, muxPatterns, handlers, clusterVars>>]_vars

\* C15: no two goroutines are inside updateHTTPHandlers, the only code that
\* reads or writes registeredRoutes, at the same time.
C15_RouteTableAccessExclusive ==
    Cardinality({c \in Contexts : InUpdate(c)}) <= 1

\* the ticker goroutine is inside updateHTTPHandlers after Init() registered
\* the first routes, while scrapes are being served
C15_Witness ==
    /\ InUpdate("tick") /\ mainPc = "serve"
    /\ registeredRoutes # {}
    /\ \E n \in Names : served[n] # NoObject

\* the decoded array holds exactly the records of the clusters sent, each
\* with every expected field
WellFormed == records = EncodeAll(version, sent)

\* FetchClusters returned a result map
Discovered == dpc = "done" /\ derr = None

\* C16: for a well-formed response the result map holds exactly the names
\* that are not "Unnamed" and (with a prefix configured) start with the
\* prefix, each mapped to https://{ip}:9440 of its entry (of the last entry,
\* should a name come twice).
C16_DiscoveryResultExact ==
    (Discovered /\ WellFormed) =>
        LET kept == {i \in 1..Len(sent) :
                        /\ sent[i][1] # "Unnamed"
                        /\ ClusterPrefix # "" => HasPrefix(sent[i][1], ClusterPrefix)}
        IN /\ DOMAIN clusterData = {sent[i][1] : i \in kept}
           /\ \A i \in kept :
                (\A j \in kept : sent[j][1] = sent[i][1] => j <= i) =>
                    clusterData[sent[i][1]] = "https://" \o sent[i][2] \o ":9440"

\* with prefix "DS" a response holding "DS-East" and "Prod-01" yielded only
\* "DS-East"
C16_Witness ==
    /\ Discovered /\ WellFormed /\ ClusterPrefix = "DS"
    /\ {sent[i][1] : i \in 1..Len(sent)} = {"DS-East", "Prod-01"}
    /\ DOMAIN clusterData = {"DS-East"}

\* C17: a record that is no object or lacks an expected field is skipped and
\* the well-formed records of the same response are still returned: once the
\* top-level array is there the call neither fails nor crashes.
C17_MalformedRecordsSkipped ==
    (dpc \in {"parsed", "done"} /\ listOk) =>
        /\ derr = None
        /\ \A i \in 1..Len(records) :
             (records[i] = Encode(version, sent[i]) /\ sent[i][1] # "Unnamed") =>
                 \E j \in 1..Len(parsed) : parsed[j] = Cluster(sent[i][1], sent[i][2])

\* C18: the result for a list of clusters sent in the shape of one API
\* version and parsed by that version's parser equals the result for the
\* same list sent and parsed in the other version, under the same prefix.
C18_V3AndV4Agree ==
    (Discovered /\ WellFormed) =>
        LET other == IF version = "v3" THEN "v4" ELSE "v3"
        IN clusterData = DiscoveryResult(other, EncodeAll(other, sent), ClusterPrefix)

\* a v3 response with a named and an unnamed cluster was parsed and gave a
\* result
C18_Witness ==
    /\ Discovered /\ WellFormed /\ version = "v3"
    /\ DOMAIN clusterData # {}
    /\ \E i \in 1..Len(sent) : sent[i][1] = "Unnamed"


(* the keys the updateMetrics of a collector type meets in a document *)
VisitedKeys(kind, doc) ==
    LET keysOf(o, under) ==
            TopKeys(o) \cup UNION {NestedKeys(o, k) : k \in under}
        ents == {doc.entities[i] : i \in 1..Len(doc.entities)}
        objs == {e \in ents : IsEntityObject(e)}
    IN IF kind = "cluster"
       THEN keysOf(DataObject(doc), TopKeys(DataObject(doc)))
       ELSE IF kind = "storage"
            THEN UNION {NestedKeys(e, "usage_stats") : e \in objs}
       ELSE IF kind = "host"
            THEN UNION {keysOf(e, TopKeys(e)) : e \in objs}
       ELSE UNION {TopKeys(e) : e \in objs}

(* C19: after any sequence of scrapes a collector holds, and sends, gauges
   only for the metric names of its allow-list; a key of the document whose
   normalized form is not in the allow-list has no series. *)
C19_GaugesOnlyForAllowList ==
    \A c \in Kinds :
        /\ \A t \in gaugeVals[c] \cup emitted[c] : t[1] \in Metrics(c)
        /\ \A key \in VisitedKeys(c, gdoc[c]) :
               normalizeKey(key) \notin Metrics(c)
               => ~\E t \in gaugeVals[c] \cup emitted[c] : t[1] = normalizeKey(key)

(* a host collector decoded an entity whose key "usage_stats" is not in the
   allow-list while the nested "storage.usage_bytes" is, and set its gauge *)
C19_Witness ==
    /\ "host" \in registry
    /\ gpc["host"] = "done"
    /\ gres["host"] = "ok"
    /\ "usage_stats" \in VisitedKeys("host", gdoc["host"])
    /\ "usage_stats" \notin Metrics("host")
    /\ <<"storage_usage_bytes", "h1", "100">> \in gaugeVals["host"]
    /\ <<"storage_usage_bytes", "h1", "100">> \in emitted["host"]

(* C20: a collector whose fetch failed in a scrape sends no sample in that
   scrape, though it holds gauges of earlier scrapes, made at most one
   request, the process runs on, and a collector of the same registry whose
   fetch succeeded sends every series it holds. *)
C20_FailedFetchEmitsNothing ==
    /\ exit = "running"
    /\ \A c \in registry :
         gpc[c] = "done" =>
            /\ gres[c] \in FetchResults
            /\ requests[c] <= 1
            /\ gres[c] # "ok" => emitted[c] = {}
            /\ gres[c] = "knownStale" => requests[c] = 0
            /\ gres[c] = "ok" => emitted[c] = gaugeVals[c]

(* in one scrape a collector holding gauges failed and sent nothing while
   another collector of the registry sent its samples *)
C20_Witness ==
    \E c, d \in registry :
        /\ c # d
        /\ gpc[c] = "done" /\ gpc[d] = "done"
        /\ gres[c] \notin {"ok", None}
        /\ gaugeVals[c] # {}
        /\ emitted[c] = {}
        /\ gres[d] = "ok"
        /\ emitted[d] # {}


(* processEntity: the instance-name label of an entity, "unknown" when the
   entity has no string under "name" *)
SentinelName == "unknown"
EntityLabel(e) ==
    IF "name" \in TopKeys(e) /\ IsString(ValueAt(e, <<"name">>))
    THEN ValueAt(e, <<"name">>)[2] ELSE SentinelName

(* the collector's fetch succeeded in this scrape and decoded a list *)
CollectedList(c) ==
    /\ c \in registry
    /\ gpc[c] = "done"
    /\ gres[c] = "ok"
    /\ gdoc[c].list

(* C21: the host and the VM collector flatten every element of the entities
   list to any depth, and each allow-listed flattened key has a gauge
   labelled with the entity's name, or with the sentinel name when the
   entity has no string name. *)
C21_HostAndVMFlattenEntities ==
    \A c \in {"host", "vm"} :
        CollectedList(c) =>
            \A i \in 1..Len(gdoc[c].entities) :
                LET e == gdoc[c].entities[i]
                IN IsEntityObject(e) =>
                     \A p \in FlattenPairs("", e) :
                         normalizeKey(p[1]) \in Metrics(c)
                         => \E t \in emitted[c] :
                                /\ t[1] = normalizeKey(p[1])
                                /\ t[2] = EntityLabel(e)

(* C22: for the host, VM and storage container collectors every flattened,
   normalized field of the response's metadata block that is in the
   allow-list has a gauge labelled "N/A". *)
C22_MetadataSetsGauges ==
    \A c \in {"host", "vm", "storage"} :
        CollectedList(c) =>
            \A p \in FlattenPairs("", Sub(gdoc[c].top, "metadata")) :
                normalizeKey(p[1]) \in Metrics(c)
                => \E t \in emitted[c] :
                       /\ t[1] = normalizeKey(p[1])
                       /\ t[2] = "N/A"


(* strings.ToLower of a whole string *)
RECURSIVE Lower(_)
Lower(text) ==
    IF Len(text) = 0 THEN ""
    ELSE ToLower(SubSeq(text, 1, 1)) \o Lower(SubSeq(text, 2, Len(text)))

(* the number each decimal string of the inputs denotes *)
DecimalStrings ==
    {<<"3.5", "3.5">>, <<"3.50", "3.5">>, <<"5", "5">>, <<"-2", "-2">>,
     <<"1e3", "1000">>}
(* the strings in hexadecimal notation or spelling infinity, and their number *)
OtherFloatStrings ==
    {<<"0x1p4", "16">>, <<"Inf", "+Inf">>, <<"infinity", "+Inf">>}

(* what coerceNumeric is to return for a value when the strings of `numbers`
   are the ones that denote a number *)
Coerced(v, numbers) ==
    IF v[1] = "number" THEN v[2]
    ELSE IF v[1] # "string" THEN "0"
    ELSE IF v[2] = "on" THEN "1"
    ELSE IF Lower(v[2]) = "off" THEN "0"
    ELSE IF \E d \in numbers : d[1] = v[2]
         THEN (CHOOSE d \in numbers : d[1] = v[2])[2]
    ELSE "0"

(* C23 as stated: valueToFloat64 returns the number itself, 1 for "on", 0 for
   "off" in any letter case, the parsed number for a decimal string, and 0
   for any other input. *)
C23_CoerceNumericDecimalOnly ==
    epc = "coerced" => efloat = Coerced(evalue, DecimalStrings)

(* C23, amended: as stated, but a string in any notation strconv.ParseFloat
   accepts (hexadecimal, the spellings of infinity) yields the number it
   denotes and not 0. *)
C23_CoerceNumeric ==
    epc = "coerced" => efloat = Coerced(evalue, DecimalStrings \cup OtherFloatStrings)

(* valueToFloat64 was given a spelling of infinity and returned +Inf *)
C23_Witness ==
    /\ epc = "coerced"
    /\ evalue = JString("Inf")
    /\ efloat = "+Inf"


(* a key path joined with underscores *)
RECURSIVE JoinPath(_)
JoinPath(path) ==
    IF Len(path) = 1 THEN path[1]
    ELSE path[1] \o "_" \o JoinPath(Tail(path))

(* C24: flattenMap with an empty prefix returns a map none of whose values
   is an object, whose keys are the underscore-joined paths of the input's
   leaves that are no objects, and flattening the returned map again
   returns it unchanged. *)
C24_FlattenJoinsPaths ==
    epc \in {"flattened", "again"} =>
        /\ \A p \in eflat : ~IsObject(p[2])
        /\ {p[1] : p \in eflat}
               = {JoinPath(l[1]) : l \in {l \in edoc : ~IsObject(l[2])}}
        /\ epc = "again" => eagain = eflat


(* C25: when a scrape request is cancelled or its deadline passes, every
   fetch the scrape started is cancelled too, and the fetches of other
   scrape requests are not touched. *)
C25_CancellationReachesFetches ==
    /\ \A s \in Scrapes, k \in Gathered :
           rctx[s] = "cancelled" => fetchCtx[s][k] # "live"
    /\ \A s \in Scrapes, k \in Gathered :
           fetchCtx[s][k] = "cancelled" => rctx[s] \in {"cancelled", "done"}


(* C26: whenever a cluster's refresh-needed flag is set (and no refresh is
   in progress) the pair its client holds is one the cluster's API has
   answered with 401 or 403; a 401 for a request that carried the previous
   pair does not mark the pair of a later refresh stale. *)
C26_StaleFlagMeansRejectedPair ==
    \A n \in ClientNames :
        (RefreshNeeded[n] /\ Mutex[n] = 0)
        => <<Username[n], Password[n]>> \in rejected[n]


(* C28: a credential refresh asks the provider with the identifier that
   NewCluster used when the cluster's client was constructed. *)
C28_RefreshAsksWithConstructionKey ==
    \A s \in Scrapes :
        qkey[s] # None => qkey[s] = builtKey[qcl[s]]

(* C29: every request a cluster's client sends carries a pair one provider
   call returned whole, and no credential field is read by a fetch while a
   refresh is between its writes of the fields. *)
C29_RequestsCarryWholePair ==
    /\ \A s \in Scrapes :
           qpc[s] \in {"sent", "auth"} => quser[s] = qpass[s]
    /\ \A s, r \in Scrapes :
           ~(/\ qcl[s] = qcl[r]
             /\ qpc[r] \in {"setUser", "setPass"}
             /\ qpc[s] \in {"readUser", "readPass"})


(* C27: staleness and credentials are per cluster.  A step changes the
   refresh-needed flag or the pair of a cluster only when it constructs that
   cluster's client or belongs to a scrape of that cluster, and a scrape
   waiting for its cluster's mutex (in the handler's hook or in the 401
   branch of fetchData) can go on whenever that one mutex is free, whoever
   holds the mutex of another cluster. *)
C27_ClustersIsolated ==
    /\ [][\A n \in Names :
             (\/ RefreshNeeded'[n] # RefreshNeeded[n]
              \/ Username'[n] # Username[n]
              \/ Password'[n] # Password[n])
             => \/ Route(n) \in muxPatterns' \ muxPatterns
                \/ \E s \in Scrapes :
                      /\ target[s] = n
                      /\ hpc'[s] # hpc[s] \/ cpc'[s] # cpc[s]]_vars
    /\ [](\A s \in Scrapes :
             (exit = "running" /\ target[s] # None /\ Mutex[target[s]] = 0)
             => /\ hpc[s] = "hook" => ENABLED HookLock(s)
                /\ \A k \in Collectors :
                      cpc[s][k] = "auth" => ENABLED FetchMarkStale(s, k))

\* a refresh for one cluster holds that cluster's mutex while a scrape of
\* the other cluster, whose flag and pair are untouched, is past its hook
C27_Witness ==
    \E r, s \in Scrapes :
        /\ target[r] = "DS-East" /\ Mutex["DS-East"] = r
        /\ hpc[r] = "setPass" /\ RefreshNeeded["DS-East"]
        /\ target[s] = "Prod-01" /\ hpc[s] = "collect"
        /\ hookDid[s] = "noop" /\ ~RefreshNeeded["Prod-01"]
        /\ Mutex["Prod-01"] = 0


(* C30: after a successful fetch of an entity list a collector emits samples
   only for entities of that response: every emitted series carries the
   label of an entity the response lists, so a series set for an entity in
   an earlier scrape is gone once the entity is. *)
C30_EmitsOnlyPresentEntities ==
    \A c \in Kinds \ {"cluster"} :
        CollectedList(c) =>
            \A t \in emitted[c] :
                \E i \in 1..Len(gdoc[c].entities) :
                    /\ IsEntityObject(gdoc[c].entities[i])
                    /\ t[2] = NameOf(gdoc[c].entities[i])

====
